---- MODULE Spec2Model ----
(***************************************************************************)
(* gatewaysshd: the Gateway's connection registry and service directory,   *)
(* the per-Connection request and channel dispatchers, Connection.Close    *)
(* and the idle scavenger.                                                 *)
(*                                                                         *)
(* Strings are sequences of one-character strings, so that strings.Split   *)
(* and strings.Join on "." are computed and not assumed.                   *)
(***************************************************************************)
EXTENDS Integers, Sequences, FiniteSets, TLC

\* ------------------------------------------------------------------ bounds
MaxConns == 2
MaxChildren == 2
MaxSessions == 1
MaxPending == 1
MaxTime == 1
MaxRequests == 2
MaxBytes == 2

\* ------------------------------------------------------------------ values
Conns == 1 .. MaxConns
NoConn == 0
Dot == "."
EmptyStr == << >>

\* user names a certificate may carry, host labels a client may advertise
Users == { EmptyStr, <<"a">>, <<"b", ".", "a">> }
Hosts == { EmptyStr, <<"b">> }

\* ports as they appear on the wire (uint32) and as stored (uint16)
WirePorts == { 0, 1 }
Uint16(p) == p % 65536

\* the full host names a direct-tcpip channel may ask for: every way of
\* gluing a host label and a user name, and the bare names
Glue(x, y) == x \o <<Dot>> \o y
FullHosts == Hosts \cup Users
               \cup { Glue(h, u) : h \in Hosts, u \in Users }
               \cup { Glue(u, h) : h \in Hosts, u \in Users }

\* the idle timeouts the scavenger is driven with
Timeouts == 0 .. MaxTime - 1

\* ------------------------------------------------------------------ state
VARIABLES
    connState,      \* c -> "none" | "active": whether HandleConnection built c
    user,           \* c -> Connection.user
    admin,          \* c -> Connection.admin
    services,       \* c -> Connection.services: host -> set of ports set true
    sessions,       \* c -> Connection.sessions (newest first)
    tunnels,        \* c -> Connection.tunnels (newest first)
    used,           \* c -> last-used timestamp
    sessionsIndex,  \* Gateway.sessionsIndex: user -> list of Connections
    sessionsList,   \* Gateway.sessionsList
    closePc,        \* c -> how far the closeOnce body of c has run
    closeRuns,      \* c -> how many times the closeOnce body was entered
    reqStream,      \* c -> "open" | "closed": the global request stream
    chanStream,     \* c -> "open" | "closed": the new channel stream
    pending,        \* the handler goroutines spawned and not yet run
    childClosed,    \* the Sessions and Tunnels whose Close was invoked
    nextId,         \* next Session / Tunnel identity
    scav,           \* the scavenger: its copy of the list and its position
    now,            \* the clock
    last,           \* the handler or call that ran last: input and result
    lk,             \* who holds the Gateway lock and each Connection lock
    bytes,          \* c -> Connection.bytesRead and Connection.bytesWritten
    tunnelBytes,    \* Tunnel identity -> Tunnel.bytesRead and bytesWritten
    deleted,        \* c -> the Tunnels that deleteTunnel took off its list
    arrived         \* the global requests in the order the pumps received them

\* the byte counters and the record of arrivals
StatVars == << bytes, tunnelBytes, deleted, arrived >>

\* everything but the locks
ModelVars == << connState, user, admin, services, sessions, tunnels, used,
                sessionsIndex, sessionsList, closePc, closeRuns, reqStream,
                chanStream, pending, childClosed, nextId, scav, now, last,
                StatVars >>

vars == << ModelVars, lk >>

\* ------------------------------------------------------------------ strings
\* index of the first Dot of s at or after position i, 0 when there is none
RECURSIVE FirstDot(_, _)
FirstDot(s, i) ==
    IF i > Len(s) THEN 0
    ELSE IF s[i] = Dot THEN i
    ELSE FirstDot(s, i + 1)

\* strings.Split(s, "."): always at least one part, empty parts are kept
RECURSIVE Split(_)
Split(s) ==
    LET d == FirstDot(s, 1)
    IN IF d = 0 THEN << s >>
       ELSE << SubSeq(s, 1, d - 1) >> \o Split(SubSeq(s, d + 1, Len(s)))

\* strings.Join(parts, ".")
RECURSIVE Join(_)
Join(parts) ==
    IF Len(parts) = 0 THEN EmptyStr
    ELSE IF Len(parts) = 1 THEN parts[1]
    ELSE parts[1] \o <<Dot>> \o Join(Tail(parts))

\* ------------------------------------------------------------------ lists
Prepend(x, s) == << x >> \o s
Range(s) == { s[i] : i \in 1 .. Len(s) }

\* the slice without x, order kept (the filter loops of the delete methods)
RECURSIVE Without(_, _)
Without(s, x) ==
    IF Len(s) = 0 THEN << >>
    ELSE IF Head(s) = x THEN Without(Tail(s), x)
    ELSE << Head(s) >> \o Without(Tail(s), x)

Count(s, x) == Cardinality({ i \in 1 .. Len(s) : s[i] = x })


\* a Go map with key k set to v
MapSet(m, k, v) ==
    [ x \in DOMAIN m \cup { k } |-> IF x = k THEN v ELSE m[x] ]

\* a Go map read: the zero value for a missing key
MapGet(m, k, zero) == IF k \in DOMAIN m THEN m[k] ELSE zero

EmptyMap == [ x \in { } |-> { } ]

\* ------------------------------------------------------------------ Connection.services
\* Connection.lookupService
lookupService(c, host, port) ==
    IF host \notin DOMAIN services[c] THEN FALSE
    ELSE port \in services[c][host]

\* a registerService that overwrites instead of refusing a duplicate
registerServiceNoCheck(s, host, port) ==
    LET s1 == IF host \in DOMAIN s THEN s ELSE MapSet(s, host, { })
    IN [ services |-> MapSet(s1, host, s1[host] \cup { port }), err |-> FALSE ]

\* a registerService that builds the map anew and loses the other hosts
registerServiceLost(s, host, port) ==
    IF host \in DOMAIN s /\ port \in s[host]
    THEN [ services |-> s, err |-> TRUE ]
    ELSE [ services |-> MapSet(EmptyMap, host, { port }), err |-> FALSE ]

\* Connection.registerService on the services map s: the map afterwards and
\* whether ErrServiceAlreadyRegistered is returned
registerService(s, host, port) ==
    LET s1 == IF host \in DOMAIN s THEN s ELSE MapSet(s, host, { })
    IN IF port \in s1[host]
       THEN [ services |-> s1, err |-> TRUE ]
       ELSE [ services |-> MapSet(s1, host, s1[host] \cup { port }), err |-> FALSE ]

\* a deregisterService that leaves the map as it is
deregisterServiceKept(s, host, port) ==
    [ services |-> s, err |-> FALSE ]

\* a deregisterService that fails when the service is not registered
deregisterServiceStrict(s, host, port) ==
    IF host \in DOMAIN s /\ port \in s[host]
    THEN [ services |-> MapSet(s, host, s[host] \ { port }), err |-> FALSE ]
    ELSE [ services |-> s, err |-> TRUE ]

\* Connection.deregisterService on the services map s: always nil
deregisterService(s, host, port) ==
    IF host \in DOMAIN s
    THEN [ services |-> MapSet(s, host, s[host] \ { port }), err |-> FALSE ]
    ELSE [ services |-> s, err |-> FALSE ]

\* ------------------------------------------------------------------ Gateway registry
\* Gateway.AddSession on the per-user index: prepend c to the list of u
IndexAdd(index, c, u) ==
    MapSet(index, u, Prepend(c, MapGet(index, u, << >>)))

\* Gateway.AddSession on the flat list: prepend c
ListAdd(list, c) == Prepend(c, list)

\* Gateway.DeleteSession on the per-user index: filter c out of the list of
\* u, whose key stays
IndexDelete(index, c, u) ==
    MapSet(index, u, Without(MapGet(index, u, << >>), c))

\* Gateway.DeleteSession on the flat list: filter c out
ListDelete(list, c) == Without(list, c)

\* an AddSession that forgets the per-user index
AddSessionListOnly(c, u) ==
    /\ sessionsIndex' = sessionsIndex
    /\ sessionsList' = ListAdd(sessionsList, c)

\* Gateway.AddSession, under the Gateway lock
AddSession(c, u) ==
    /\ sessionsIndex' = IndexAdd(sessionsIndex, c, u)
    /\ sessionsList' = ListAdd(sessionsList, c)

\* Gateway.DeleteSession, under the Gateway lock
DeleteSession(c) ==
    /\ sessionsIndex' = IndexDelete(sessionsIndex, c, user[c])
    /\ sessionsList' = ListDelete(sessionsList, c)

\* the first Connection of list that advertises (host, port), or NoConn
RECURSIVE FirstAdvertising(_, _, _)
FirstAdvertising(list, host, port) ==
    IF Len(list) = 0 THEN NoConn
    ELSE IF lookupService(Head(list), host, port) THEN Head(list)
    ELSE FirstAdvertising(Tail(list), host, port)

NilTriple == [ conn |-> NoConn, host |-> EmptyStr, port |-> 0 ]

\* the loop of LookupSessionService from partition i on (i counts from 0)
RECURSIVE LookupFrom(_, _, _)
LookupFrom(parts, i, port) ==
    IF i >= Len(parts) THEN NilTriple
    ELSE LET host == Join(SubSeq(parts, 1, i))
             usr == Join(SubSeq(parts, i + 1, Len(parts)))
             hit == FirstAdvertising(MapGet(sessionsIndex, usr, << >>), host, port)
         IN IF hit # NoConn
            THEN [ conn |-> hit, host |-> host, port |-> port ]
            ELSE LookupFrom(parts, i + 1, port)

\* a lookup that takes the first labels for the user and the rest for the host
RECURSIVE LookupFromSwapped(_, _, _)
LookupFromSwapped(parts, i, port) ==
    IF i >= Len(parts) THEN NilTriple
    ELSE LET usr == Join(SubSeq(parts, 1, i))
             host == Join(SubSeq(parts, i + 1, Len(parts)))
             hit == FirstAdvertising(MapGet(sessionsIndex, usr, << >>), host, port)
         IN IF hit # NoConn
            THEN [ conn |-> hit, host |-> host, port |-> port ]
            ELSE LookupFromSwapped(parts, i + 1, port)

LookupSwapped(host, port) == LookupFromSwapped(Split(host), 0, port)

\* a lookup that skips the partition with the empty host
LookupSkipFirst(host, port) == LookupFrom(Split(host), 1, port)

\* Gateway.LookupSessionService
LookupSessionService(host, port) == LookupFrom(Split(host), 0, port)


\* ------------------------------------------------------------------ requests and channels
\* the origin (address, port) a TunnelData carries; a ForwardRequest has none
\* and is given NoOrigin
NoOrigin == << "", 0 >>
Origins == { << "1.2.3.4", 5 >>, << "5.6.7.8", 9 >> }

Malformed == [ good |-> FALSE, host |-> EmptyStr, port |-> 0, origin |-> NoOrigin ]
PayloadFrom(host, port, origin) ==
    [ good |-> TRUE, host |-> host, port |-> port, origin |-> origin ]
Payload(host, port) == PayloadFrom(host, port, NoOrigin)

\* what unmarshalForwardRequest yields for the payloads a client may send
ForwardPayloads == { Malformed } \cup { Payload(h, p) : h \in Hosts, p \in WirePorts }

\* what unmarshalTunnelData yields for the extra data a client may send
TunnelPayloads ==
    { Malformed } \cup { Payload(h, p) : h \in FullHosts, p \in WirePorts \ { 0 } }

RequestTypes == { "tcpip-forward", "cancel-tcpip-forward", "keepalive" }

\* a spawned handler goroutine; what it was spawned with is read when it runs
NoTask == [ kind |-> "none", conn |-> NoConn ]
Task(kind, c) == [ kind |-> kind, conn |-> c ]

Slots == 1 .. MaxPending
FreeSlots == { n \in DOMAIN pending : pending[n] = NoTask }

\* the record of the handler or call that ran last. flag is WantReply for a
\* request and "has extra data" for a session channel; err is the error of
\* registerService, or a failed OpenChannel / Accept; closed is whether a
\* rejected channel was accepted and closed towards the peer
NoOp ==
    [ op |-> "none", conn |-> NoConn, type |-> "", data |-> Malformed,
      flag |-> FALSE, ok |-> FALSE, reason |-> "", err |-> FALSE,
      target |-> NoConn, closed |-> FALSE ]

Op(name, c) == [ NoOp EXCEPT !.op = name, !.conn = c ]

TransportOpen(c) == connState[c] = "active" /\ closePc[c] # "closed"

\* ------------------------------------------------------------------ locks
\* the calls whose locking is followed step by step
LockTasks == { "lookup", "status", "update", "close", "register", "scavenge" }

\* nobody holds a lock, no call is under way
LkIdle ==
    [ g |-> "none", c |-> [ x \in Conns |-> "none" ],
      pc |-> [ t \in LockTasks |-> "idle" ],
      queue |-> [ t \in LockTasks |-> << >> ], io |-> { } ]

\* ------------------------------------------------------------------ counters
\* a pair of byte counters, read and written
Bytes(r, w) == [ read |-> r, written |-> w ]
ZeroBytes == Bytes(0, 0)

\* the identities a Session or a Tunnel can have
ChildIds == 1 .. MaxChildren

\* no byte has moved, no Tunnel was deleted, no request has arrived
StatInit ==
    /\ bytes = [ c \in Conns |-> ZeroBytes ]
    /\ tunnelBytes = [ i \in ChildIds |-> ZeroBytes ]
    /\ deleted = [ c \in Conns |-> { } ]
    /\ arrived = << >>

\* ------------------------------------------------------------------ Init
ScavIdle == [ pc |-> "idle", queue |-> << >>, timeout |-> 0, closed |-> { } ]

Init ==
    /\ connState = [ c \in Conns |-> "none" ]
    /\ user = [ c \in Conns |-> EmptyStr ]
    /\ admin = [ c \in Conns |-> FALSE ]
    /\ services = [ c \in Conns |-> EmptyMap ]
    /\ sessions = [ c \in Conns |-> << >> ]
    /\ tunnels = [ c \in Conns |-> << >> ]
    /\ used = [ c \in Conns |-> 0 ]
    /\ sessionsIndex = [ u \in { } |-> << >> ]
    /\ sessionsList = << >>
    /\ closePc = [ c \in Conns |-> "open" ]
    /\ closeRuns = [ c \in Conns |-> 0 ]
    /\ reqStream = [ c \in Conns |-> "closed" ]
    /\ chanStream = [ c \in Conns |-> "closed" ]
    /\ pending = [ n \in Slots |-> NoTask ]
    /\ childClosed = { }
    /\ nextId = 1
    /\ scav = ScavIdle
    /\ now = 0
    /\ last = NoOp
    /\ lk = LkIdle
    /\ StatInit

\* ------------------------------------------------------------------ Gateway.HandleConnection
\* a HandleConnection that starts the pumps before AddSession: the request
\* pump may find its stream ended and run Close, whose deleteConnection finds
\* nothing to delete, before the Connection is added
HandleConnectionPumpsFirst(c, u, adm) ==
    /\ connState[c] = "none"
    /\ \A d \in Conns : d < c => connState[d] # "none"
    /\ connState' = [ connState EXCEPT ![c] = "active" ]
    /\ user' = [ user EXCEPT ![c] = u ]
    /\ admin' = [ admin EXCEPT ![c] = adm ]
    /\ used' = [ used EXCEPT ![c] = now ]
    /\ reqStream' = [ reqStream EXCEPT ![c] = "closed" ]
    /\ chanStream' = [ chanStream EXCEPT ![c] = "open" ]
    /\ closePc' = [ closePc EXCEPT ![c] = "deregistered" ]
    /\ closeRuns' = [ closeRuns EXCEPT ![c] = @ + 1 ]
    /\ AddSession(c, u)
    /\ last' = NoOp
    /\ UNCHANGED << lk, StatVars, services, sessions, tunnels, pending,
                    childClosed, nextId, scav, now >>

\* the handshake succeeded for user u: newConnection, AddSession, then the
\* two pumps are started. Connections are numbered in the order they arrive
HandleConnection(c, u, adm) ==
    /\ connState[c] = "none"
    /\ \A d \in Conns : d < c => connState[d] # "none"
    /\ connState' = [ connState EXCEPT ![c] = "active" ]
    /\ user' = [ user EXCEPT ![c] = u ]
    /\ admin' = [ admin EXCEPT ![c] = adm ]
    /\ used' = [ used EXCEPT ![c] = now ]
    /\ AddSession(c, u)
    /\ reqStream' = [ reqStream EXCEPT ![c] = "open" ]
    /\ chanStream' = [ chanStream EXCEPT ![c] = "open" ]
    /\ last' = NoOp
    /\ UNCHANGED << lk, StatVars, services, sessions, tunnels, closePc, closeRuns, pending,
                    childClosed, nextId, scav, now >>

\* ------------------------------------------------------------------ Connection.Close
\* a Close whose body is not guarded by closeOnce
CloseEnterUnguarded(c) ==
    /\ closePc' = [ closePc EXCEPT ![c] = "deregistered" ]
    /\ closeRuns' = [ closeRuns EXCEPT ![c] = @ + 1 ]
    /\ DeleteSession(c)

\* entering c.Close(): closeOnce lets the first caller run the body, which
\* starts with gateway.deleteConnection(c); every other caller runs nothing
\* (and waits for the body to end)
CloseEnter(c) ==
    IF closePc[c] = "open"
    THEN /\ closePc' = [ closePc EXCEPT ![c] = "deregistered" ]
         /\ closeRuns' = [ closeRuns EXCEPT ![c] = @ + 1 ]
         /\ DeleteSession(c)
    ELSE UNCHANGED << closePc, closeRuns, sessionsIndex, sessionsList >>

\* the closeOnce body after deleteConnection: Close is invoked on every
\* Session of the snapshot c.Sessions()
CloseSessions(c) ==
    /\ closePc[c] = "deregistered"
    /\ closePc' = [ closePc EXCEPT ![c] = "sessions" ]
    /\ childClosed' = childClosed \cup Range(sessions[c])
    /\ last' = NoOp
    /\ UNCHANGED << lk, StatVars, connState, user, admin, services, sessions, tunnels, used,
                    sessionsIndex, sessionsList, closeRuns, reqStream,
                    chanStream, pending, nextId, scav, now >>

\* a Close that goes on to the transport without closing the Tunnels
CloseTunnelsSkipped(c) ==
    /\ closePc[c] = "sessions"
    /\ closePc' = [ closePc EXCEPT ![c] = "tunnels" ]
    /\ last' = NoOp
    /\ UNCHANGED << lk, StatVars, connState, user, admin, services, sessions, tunnels, used,
                    sessionsIndex, sessionsList, closeRuns, reqStream,
                    chanStream, pending, nextId, scav, now, childClosed >>

\* then on every Tunnel of the snapshot c.Tunnels()
CloseTunnels(c) ==
    /\ closePc[c] = "sessions"
    /\ closePc' = [ closePc EXCEPT ![c] = "tunnels" ]
    /\ childClosed' = childClosed \cup { t.id : t \in Range(tunnels[c]) }
    /\ last' = NoOp
    /\ UNCHANGED << lk, StatVars, connState, user, admin, services, sessions, tunnels, used,
                    sessionsIndex, sessionsList, closeRuns, reqStream,
                    chanStream, pending, nextId, scav, now >>

\* then c.conn.Close(), which ends the body
CloseTransport(c) ==
    /\ closePc[c] = "tunnels"
    /\ closePc' = [ closePc EXCEPT ![c] = "closed" ]
    /\ last' = NoOp
    /\ UNCHANGED << lk, StatVars, connState, user, admin, services, sessions, tunnels, used,
                    sessionsIndex, sessionsList, closeRuns, childClosed,
                    reqStream, chanStream, pending, nextId, scav, now >>

\* ------------------------------------------------------------------ the two pumps
PumpKinds == { "req", "chan" }

\* handleRequests: a global request arrives and gets its own goroutine
RequestArrives(c, n) ==
    /\ reqStream[c] = "open"
    /\ TransportOpen(c)
    /\ n \in FreeSlots
    /\ \A m \in FreeSlots : n <= m
    /\ used' = [ used EXCEPT ![c] = now ]
    /\ pending' = [ pending EXCEPT ![n] = Task("request", c) ]
    /\ last' = NoOp
    /\ UNCHANGED << lk, StatVars, connState, user, admin, services, sessions, tunnels,
                    sessionsIndex, sessionsList, closePc, closeRuns, reqStream,
                    chanStream, childClosed, nextId, scav, now >>

\* handleChannels: a channel open arrives and gets its own goroutine
ChannelArrives(c, n) ==
    /\ chanStream[c] = "open"
    /\ TransportOpen(c)
    /\ n \in FreeSlots
    /\ \A m \in FreeSlots : n <= m
    /\ used' = [ used EXCEPT ![c] = now ]
    /\ pending' = [ pending EXCEPT ![n] = Task("channel", c) ]
    /\ last' = NoOp
    /\ UNCHANGED << lk, StatVars, connState, user, admin, services, sessions, tunnels,
                    sessionsIndex, sessionsList, closePc, closeRuns, reqStream,
                    chanStream, childClosed, nextId, scav, now >>

\* a pump that leaves its loop without calling Close
StreamEndsNoClose(c, k) ==
    /\ connState[c] = "active"
    /\ IF k = "req"
       THEN /\ reqStream[c] = "open"
            /\ reqStream' = [ reqStream EXCEPT ![c] = "closed" ]
            /\ UNCHANGED chanStream
       ELSE /\ chanStream[c] = "open"
            /\ chanStream' = [ chanStream EXCEPT ![c] = "closed" ]
            /\ UNCHANGED reqStream
    /\ last' = NoOp
    /\ UNCHANGED << lk, StatVars, connState, user, admin, services, sessions, tunnels, used,
                    sessionsIndex, sessionsList, closePc, closeRuns,
                    pending, childClosed, nextId, scav, now >>

\* the stream of pump k closes (the client ends it, or the transport is
\* gone): the pump leaves its loop and runs the deferred c.Close()
StreamEnds(c, k) ==
    /\ connState[c] = "active"
    /\ IF k = "req"
       THEN /\ reqStream[c] = "open"
            /\ reqStream' = [ reqStream EXCEPT ![c] = "closed" ]
            /\ UNCHANGED chanStream
       ELSE /\ chanStream[c] = "open"
            /\ chanStream' = [ chanStream EXCEPT ![c] = "closed" ]
            /\ UNCHANGED reqStream
    /\ CloseEnter(c)
    /\ last' = [ Op("Close", c) EXCEPT !.type = k, !.ok = (closePc[c] = "open") ]
    /\ UNCHANGED << lk, StatVars, connState, user, admin, services, sessions, tunnels, used,
                    pending, childClosed, nextId, scav, now >>

\* ------------------------------------------------------------------ Connection.handleRequest
Outcome(svc, ok, err) == [ services |-> svc, ok |-> ok, err |-> err ]

\* a dispatcher that lets port 0 through to registerService
RequestOutcomeNoPortCheck(c, type, data) ==
    IF type = "tcpip-forward" /\ data.good
    THEN LET r == registerService(services[c], data.host, Uint16(data.port))
         IN Outcome(r.services, ~r.err, r.err)
    ELSE Outcome(services[c], FALSE, FALSE)

\* a dispatcher that replies ok whatever registerService returns
RequestOutcomeIgnoreErr(c, type, data) ==
    IF type \in { "tcpip-forward", "cancel-tcpip-forward" } /\ data.good
          /\ ( type = "tcpip-forward" => data.port # 0 )
    THEN LET r == IF type = "tcpip-forward"
                  THEN registerService(services[c], data.host, Uint16(data.port))
                  ELSE deregisterService(services[c], data.host, Uint16(data.port))
         IN Outcome(r.services, TRUE, r.err)
    ELSE Outcome(services[c], FALSE, FALSE)

\* the switch of handleRequest: the services map afterwards, the reply
\* value ok and whether registerService returned its error
RequestOutcome(c, type, data) ==
    IF type = "tcpip-forward"
    THEN IF ~data.good
         THEN Outcome(services[c], FALSE, FALSE)
         ELSE IF data.port = 0
         THEN Outcome(services[c], FALSE, FALSE)
         ELSE LET r == registerService(services[c], data.host, Uint16(data.port))
              IN Outcome(r.services, ~r.err, r.err)
    ELSE IF type = "cancel-tcpip-forward"
    THEN IF ~data.good
         THEN Outcome(services[c], FALSE, FALSE)
         ELSE LET r == deregisterService(services[c], data.host, Uint16(data.port))
              IN Outcome(r.services, ~r.err, r.err)
    ELSE Outcome(services[c], FALSE, FALSE)

\* the goroutine of one global request runs: the request has the given type,
\* decoded payload and WantReply; the reply (ok) is sent when wanted
handleRequest(n, type, data, wantReply) ==
    /\ pending[n].kind = "request"
    /\ LET c == pending[n].conn
           o == RequestOutcome(c, type, data)
       IN /\ services' = [ services EXCEPT ![c] = o.services ]
          /\ last' = [ Op("handleRequest", c) EXCEPT
                         !.type = type, !.data = data, !.flag = wantReply,
                         !.ok = o.ok, !.err = o.err ]
    /\ pending' = [ pending EXCEPT ![n] = NoTask ]
    /\ UNCHANGED << lk, StatVars, connState, user, admin, sessions, tunnels, used,
                    sessionsIndex, sessionsList, closePc, closeRuns, reqStream,
                    chanStream, childClosed, nextId, scav, now >>

\* ------------------------------------------------------------------ Connection.handleChannel
Verdict(ok, reason, hit) == [ ok |-> ok, reason |-> reason, hit |-> hit ]

\* a handleTunnelChannel that never looks at the admin flag
TunnelVerdictNoAdmin(c, data) ==
    IF ~data.good THEN Verdict(FALSE, "UnknownChannelType", NilTriple)
    ELSE LET r == LookupSessionService(data.host, Uint16(data.port))
         IN IF r.conn = NoConn THEN Verdict(FALSE, "ConnectionFailed", NilTriple)
            ELSE Verdict(TRUE, "", r)

\* a handleTunnelChannel that goes on to the caller itself on a miss
TunnelVerdictNoMiss(c, data) ==
    IF ~data.good THEN Verdict(FALSE, "UnknownChannelType", NilTriple)
    ELSE LET r == LookupSessionService(data.host, Uint16(data.port))
         IN IF ~admin[c] THEN Verdict(FALSE, "Prohibited", NilTriple)
            ELSE Verdict(TRUE, "", IF r.conn = NoConn THEN [ r EXCEPT !.conn = c ] ELSE r)

\* the checks of handleTunnelChannel before any channel is opened: decode,
\* look the service up, then see whether the caller is allowed
TunnelVerdict(c, data) ==
    IF ~data.good THEN Verdict(FALSE, "UnknownChannelType", NilTriple)
    ELSE LET r == LookupSessionService(data.host, Uint16(data.port))
         IN IF r.conn = NoConn THEN Verdict(FALSE, "ConnectionFailed", NilTriple)
            ELSE IF ~admin[c] THEN Verdict(FALSE, "Prohibited", NilTriple)
            ELSE Verdict(TRUE, "", r)

\* a Tunnel: its channel type, the Connection whose direct-tcpip channel it
\* serves, and the host, port and origin of its TunnelData
Tunnel(id, type, from, data) ==
    [ id |-> id, type |-> type, from |-> from, host |-> data.host,
      port |-> data.port, origin |-> data.origin ]

\* a data2 that passes on the name the caller asked for
ForwardedDataAsRequested(data, hit) == data

\* data2, the TunnelData of the forwarded-tcpip channel: the coordinates the
\* lookup returned and the origin the caller sent
ForwardedData(data, hit) ==
    [ good |-> TRUE, host |-> hit.host, port |-> hit.port,
      origin |-> data.origin ]

\* a handleSessionChannel that does not look at the extra data
handleSessionChannelAnyData(c, extra, acceptOk) ==
    /\ acceptOk => TransportOpen(c)
    /\ IF ~acceptOk
       THEN /\ last' = [ Op("handleChannel", c) EXCEPT
                           !.type = "session", !.flag = extra, !.ok = TRUE,
                           !.err = TRUE ]
            /\ UNCHANGED << sessions, nextId >>
       ELSE /\ nextId <= MaxSessions
            /\ sessions' = [ sessions EXCEPT ![c] = Prepend(nextId, @) ]
            /\ nextId' = nextId + 1
            /\ last' = [ Op("handleChannel", c) EXCEPT
                           !.type = "session", !.flag = extra, !.ok = TRUE ]
    /\ UNCHANGED << tunnels, childClosed >>

\* handleSessionChannel; acceptOk is whether newChannel.Accept() succeeds
handleSessionChannel(c, extra, acceptOk) ==
    /\ acceptOk => TransportOpen(c)
    /\ IF extra
       THEN /\ last' = [ Op("handleChannel", c) EXCEPT
                           !.type = "session", !.flag = extra,
                           !.reason = "Prohibited", !.closed = acceptOk ]
            /\ UNCHANGED << sessions, nextId >>
       ELSE IF ~acceptOk
       THEN /\ last' = [ Op("handleChannel", c) EXCEPT
                           !.type = "session", !.ok = TRUE, !.err = TRUE ]
            /\ UNCHANGED << sessions, nextId >>
       ELSE /\ nextId <= MaxSessions
            /\ sessions' = [ sessions EXCEPT ![c] = Prepend(nextId, @) ]
            /\ nextId' = nextId + 1
            /\ last' = [ Op("handleChannel", c) EXCEPT
                           !.type = "session", !.ok = TRUE ]
    /\ UNCHANGED << tunnels, childClosed >>

\* a handleTunnelChannel without the deferred tunnel2.Close(): when the
\* caller's channel cannot be accepted the Tunnel on the target stays open
handleTunnelChannelLeaky(c, data, openOk, acceptOk) ==
    LET v == TunnelVerdict(c, data)
        target == v.hit.conn
        t2 == Tunnel(nextId, "forwarded-tcpip", c, ForwardedData(data, v.hit))
        t1 == Tunnel(nextId + 1, "direct-tcpip", c, data)
        result == [ Op("handleChannel", c) EXCEPT
                      !.type = "direct-tcpip", !.data = data, !.ok = v.ok,
                      !.reason = v.reason, !.target = target ]
    IN /\ acceptOk => TransportOpen(c)
       /\ IF ~v.ok
          THEN /\ last' = [ result EXCEPT !.closed = acceptOk ]
               /\ UNCHANGED << tunnels, childClosed, nextId >>
          ELSE /\ openOk => TransportOpen(target)
               /\ IF ~openOk
                  THEN /\ last' = [ result EXCEPT !.ok = FALSE,
                                      !.reason = "ConnectionFailed", !.err = TRUE,
                                      !.closed = acceptOk ]
                       /\ UNCHANGED << tunnels, childClosed, nextId >>
                  ELSE /\ nextId + 1 <= MaxChildren
                       /\ IF ~acceptOk
                          THEN /\ tunnels' = [ tunnels EXCEPT
                                                 ![target] = Prepend(t2, @) ]
                               /\ nextId' = nextId + 1
                               /\ last' = [ result EXCEPT !.err = TRUE ]
                               /\ UNCHANGED childClosed
                          ELSE /\ tunnels' =
                                     LET w == [ tunnels EXCEPT
                                                  ![target] = Prepend(t2, @) ]
                                     IN [ w EXCEPT ![c] = Prepend(t1, @) ]
                               /\ nextId' = nextId + 2
                               /\ last' = result
                               /\ UNCHANGED childClosed
       /\ UNCHANGED sessions

\* handleTunnelChannel; openOk is whether OpenChannel on the target
\* succeeds, acceptOk whether the caller's channel can be accepted (to
\* serve it, or to close it at once when the open is rejected)
handleTunnelChannel(c, data, openOk, acceptOk) ==
    LET v == TunnelVerdict(c, data)
        target == v.hit.conn
        t2 == Tunnel(nextId, "forwarded-tcpip", c, ForwardedData(data, v.hit))
        t1 == Tunnel(nextId + 1, "direct-tcpip", c, data)
        result == [ Op("handleChannel", c) EXCEPT
                      !.type = "direct-tcpip", !.data = data, !.ok = v.ok,
                      !.reason = v.reason, !.target = target ]
    IN /\ acceptOk => TransportOpen(c)
       /\ IF ~v.ok
          THEN /\ last' = [ result EXCEPT !.closed = acceptOk ]
               /\ UNCHANGED << tunnels, childClosed, nextId >>
          ELSE /\ openOk => TransportOpen(target)
               /\ IF ~openOk
                  THEN /\ last' = [ result EXCEPT !.ok = FALSE,
                                      !.reason = "ConnectionFailed", !.err = TRUE,
                                      !.closed = acceptOk ]
                       /\ UNCHANGED << tunnels, childClosed, nextId >>
                  ELSE /\ nextId + 1 <= MaxChildren
                       /\ IF ~acceptOk
                          THEN /\ tunnels' = [ tunnels EXCEPT
                                                 ![target] = Prepend(t2, @) ]
                               /\ childClosed' = childClosed \cup { t2.id }
                               /\ nextId' = nextId + 1
                               /\ last' = [ result EXCEPT !.err = TRUE ]
                          ELSE /\ tunnels' =
                                     LET w == [ tunnels EXCEPT
                                                  ![target] = Prepend(t2, @) ]
                                     IN [ w EXCEPT ![c] = Prepend(t1, @) ]
                               /\ nextId' = nextId + 2
                               /\ last' = result
                               /\ UNCHANGED childClosed
       /\ UNCHANGED sessions

\* the goroutine of one channel open runs: the channel has the given type,
\* decoded extra data (direct-tcpip) or presence of extra data (session).
\* A rejected channel is accepted and closed at once: closed records
\* whether that Accept succeeded
handleChannel(n, type, data, extra, openOk, acceptOk) ==
    /\ pending[n].kind = "channel"
    /\ LET c == pending[n].conn
       IN CASE type = "session" ->
                 /\ data = Malformed /\ openOk
                 /\ handleSessionChannel(c, extra, acceptOk)
            [] type = "direct-tcpip" ->
                 /\ ~extra
                 /\ handleTunnelChannel(c, data, openOk, acceptOk)
            [] OTHER ->
                 /\ data = Malformed /\ ~extra /\ openOk
                 /\ acceptOk => TransportOpen(c)
                 /\ last' = [ Op("handleChannel", c) EXCEPT
                                !.type = type, !.reason = "UnknownChannelType",
                                !.closed = acceptOk ]
                 /\ UNCHANGED << sessions, tunnels, childClosed, nextId >>
    /\ pending' = [ pending EXCEPT ![n] = NoTask ]
    /\ UNCHANGED << lk, StatVars, connState, user, admin, services, used, sessionsIndex,
                    sessionsList, closePc, closeRuns, reqStream, chanStream,
                    scav, now >>

\* ------------------------------------------------------------------ Gateway.ScavengeSessions
\* idle > timeout, with idle = time.Since(session.Used())
TimedOut(c, timeout) == now - used[c] > timeout

\* the pass starts: g.Sessions() copies the flat list
ScavengeStart(timeout) ==
    /\ scav.pc = "idle"
    /\ scav' = [ pc |-> "loop", queue |-> sessionsList, timeout |-> timeout,
                 closed |-> { } ]
    /\ last' = NoOp
    /\ UNCHANGED << lk, StatVars, connState, user, admin, services, sessions, tunnels, used,
                    sessionsIndex, sessionsList, closePc, closeRuns, reqStream,
                    chanStream, pending, childClosed, nextId, now >>

\* the loop body for the next Connection of the copy: Close it when idle
ScavengeVisit ==
    /\ scav.pc = "loop"
    /\ scav.queue # << >>
    /\ LET c == Head(scav.queue)
       IN IF TimedOut(c, scav.timeout)
          THEN /\ CloseEnter(c)
               /\ scav' = [ scav EXCEPT !.pc = "wait", !.closed = @ \cup { c } ]
               /\ last' = [ Op("Close", c) EXCEPT
                              !.type = "scav", !.ok = (closePc[c] = "open") ]
          ELSE /\ scav' = [ scav EXCEPT !.queue = Tail(@) ]
               /\ last' = NoOp
               /\ UNCHANGED << closePc, closeRuns, sessionsIndex, sessionsList >>
    /\ UNCHANGED << lk, StatVars, connState, user, admin, services, sessions, tunnels, used,
                    reqStream, chanStream, pending, childClosed, nextId, now >>

\* session.Close() returns to the scavenger once the closeOnce body is over
ScavengeCloseReturns ==
    /\ scav.pc = "wait"
    /\ closePc[Head(scav.queue)] = "closed"
    /\ last' = NoOp
    /\ scav' = [ scav EXCEPT !.pc = "loop", !.queue = Tail(@) ]
    /\ UNCHANGED << lk, StatVars, connState, user, admin, services, sessions, tunnels, used,
                    sessionsIndex, sessionsList, closePc, closeRuns, reqStream,
                    chanStream, pending, childClosed, nextId, now >>

\* the copy is exhausted: ScavengeSessions returns
ScavengeEnd ==
    /\ scav.pc = "loop"
    /\ scav.queue = << >>
    /\ scav' = ScavIdle
    /\ last' = NoOp
    /\ UNCHANGED << lk, StatVars, connState, user, admin, services, sessions, tunnels, used,
                    sessionsIndex, sessionsList, closePc, closeRuns, reqStream,
                    chanStream, pending, childClosed, nextId, now >>

\* time passes
Tick ==
    /\ now < MaxTime
    /\ now' = now + 1
    /\ last' = NoOp
    /\ UNCHANGED << lk, StatVars, connState, user, admin, services, sessions, tunnels, used,
                    sessionsIndex, sessionsList, closePc, closeRuns, reqStream,
                    chanStream, pending, childClosed, nextId, scav >>

\* ------------------------------------------------------------------ specification
\* the gateway with its clients: connections come and go, the scavenger runs
LifeUsers == { <<"a">>, <<"b", ".", "a">> }

Next ==
    \/ \E c \in Conns, u \in LifeUsers : HandleConnection(c, u, TRUE)
    \/ \E c \in Conns, n \in Slots : ChannelArrives(c, n)
    \/ \E n \in Slots, extra \in BOOLEAN, acceptOk \in BOOLEAN :
          handleChannel(n, "session", Malformed, extra, TRUE, acceptOk)
    \/ \E c \in Conns, k \in PumpKinds : StreamEnds(c, k)
    \/ \E c \in Conns : CloseSessions(c)
    \/ \E c \in Conns : CloseTunnels(c)
    \/ \E c \in Conns : CloseTransport(c)
    \/ \E timeout \in Timeouts : ScavengeStart(timeout)
    \/ ScavengeVisit
    \/ ScavengeCloseReturns
    \/ ScavengeEnd
    \/ Tick

Spec == Init /\ [][Next]_vars

\* ------------------------------------------------------------------ the directory
\* the ports registerService can be reached with
StoredPorts == { Uint16(p) : p \in WirePorts \ { 0 } }

\* the services maps of a Connection whose registrations were never
\* cancelled: the hosts it advertises, each with every port
AdvertisedMaps == { [ h \in D |-> StoredPorts ] : D \in SUBSET Hosts }
FullMap == [ h \in Hosts |-> StoredPorts ]

\* the registry after HandleConnection has added Connections 1 .. k
RECURSIVE RegistryAfter(_, _)
RegistryAfter(usr, k) ==
    IF k = 0 THEN [ index |-> [ u \in { } |-> << >> ], list |-> << >> ]
    ELSE LET r == RegistryAfter(usr, k - 1)
         IN [ index |-> IndexAdd(r.index, k, usr[k]), list |-> ListAdd(r.list, k) ]

\* the registry r after Close has deleted the Connections of S
RECURSIVE RegistryWithout(_, _, _)
RegistryWithout(r, usr, S) ==
    IF S = { } THEN r
    ELSE LET c == CHOOSE x \in S : TRUE
         IN RegistryWithout([ index |-> IndexDelete(r.index, c, usr[c]),
                              list |-> ListDelete(r.list, c) ],
                            usr, S \ { c })

\* the gateway after every Connection has been handled, has had requests
\* served and some have been closed (a closed one after advertising all)
InitDir ==
    /\ connState = [ c \in Conns |-> "active" ]
    /\ user \in [ Conns -> Users ]
    /\ admin \in [ Conns -> BOOLEAN ]
    /\ services \in [ Conns -> AdvertisedMaps ]
    /\ closePc \in [ Conns -> { "open", "closed" } ]
    /\ \A c \in Conns : closePc[c] = "closed" => services[c] = FullMap /\ ~admin[c]
    /\ sessions = [ c \in Conns |-> << >> ]
    /\ tunnels = [ c \in Conns |-> << >> ]
    /\ used = [ c \in Conns |-> 0 ]
    /\ LET r == RegistryWithout(RegistryAfter(user, MaxConns), user,
                                { c \in Conns : closePc[c] = "closed" })
       IN /\ sessionsIndex = r.index
          /\ sessionsList = r.list
    /\ closeRuns = [ c \in Conns |-> IF closePc[c] = "closed" THEN 1 ELSE 0 ]
    /\ reqStream = [ c \in Conns |-> closePc[c] ]
    /\ chanStream = [ c \in Conns |-> closePc[c] ]
    /\ pending = [ n \in Slots |-> NoTask ]
    /\ childClosed = { }
    /\ nextId = 1
    /\ scav = ScavIdle
    /\ now = 0
    /\ last = NoOp
    /\ lk = LkIdle
    /\ StatInit

\* clients open channels on the gateway as it stands; the handlers run
NextDir ==
    \/ \E c \in Conns, n \in Slots : ChannelArrives(c, n)
    \/ \E n \in Slots, extra \in BOOLEAN, acceptOk \in BOOLEAN :
          handleChannel(n, "session", Malformed, extra, TRUE, acceptOk)
    \/ \E n \in Slots, data \in TunnelPayloads, openOk \in BOOLEAN,
          acceptOk \in BOOLEAN :
          handleChannel(n, "direct-tcpip", data, FALSE, openOk, acceptOk)
    \/ \E n \in Slots, acceptOk \in BOOLEAN :
          handleChannel(n, "x11", Malformed, FALSE, TRUE, acceptOk)

SpecDir == InitDir /\ [][NextDir]_vars

\* ------------------------------------------------------------------ tunnels and teardown
\* an admin Connection 1 of user "a", which may advertise, and Connections
\* of user "b.a" that are not admin and advertise every host
TearUser == [ c \in Conns |-> IF c = 1 THEN <<"a">> ELSE <<"b", ".", "a">> ]

\* the names asked for: host "b" of user "b.a", user "a" with no host, and
\* a name of nobody
TearHosts == { Glue(<<"b">>, <<"b", ".", "a">>), <<"a">>, <<"b">> }
TearPayloads ==
    { Malformed } \cup { PayloadFrom(h, p, o) : h \in TearHosts,
                                                p \in WirePorts \ { 0 },
                                                o \in Origins }

InitTear ==
    /\ connState = [ c \in Conns |-> "active" ]
    /\ user = TearUser
    /\ admin = [ c \in Conns |-> c = 1 ]
    /\ services \in { [ c \in Conns |-> IF c = 1 THEN m ELSE FullMap ] :
                         m \in { EmptyMap, FullMap } }
    /\ sessions = [ c \in Conns |-> << >> ]
    /\ tunnels = [ c \in Conns |-> << >> ]
    /\ used = [ c \in Conns |-> 0 ]
    /\ LET r == RegistryAfter(TearUser, MaxConns)
       IN /\ sessionsIndex = r.index
          /\ sessionsList = r.list
    /\ closePc = [ c \in Conns |-> "open" ]
    /\ closeRuns = [ c \in Conns |-> 0 ]
    /\ reqStream = [ c \in Conns |-> "open" ]
    /\ chanStream = [ c \in Conns |-> "open" ]
    /\ pending = [ n \in Slots |-> NoTask ]
    /\ childClosed = { }
    /\ nextId = 1
    /\ scav = ScavIdle
    /\ now = 0
    /\ last = NoOp
    /\ lk = LkIdle
    /\ StatInit

\* clients open channels, the handlers run, streams end and Close runs
NextTear ==
    \/ \E c \in Conns, n \in Slots : ChannelArrives(c, n)
    \/ \E n \in Slots, extra \in BOOLEAN, acceptOk \in BOOLEAN :
          handleChannel(n, "session", Malformed, extra, TRUE, acceptOk)
    \/ \E n \in Slots, data \in TearPayloads, openOk \in BOOLEAN,
          acceptOk \in BOOLEAN :
          handleChannel(n, "direct-tcpip", data, FALSE, openOk, acceptOk)
    \/ \E n \in Slots, acceptOk \in BOOLEAN :
          handleChannel(n, "x11", Malformed, FALSE, TRUE, acceptOk)
    \/ \E c \in Conns, k \in PumpKinds : StreamEnds(c, k)
    \/ \E c \in Conns : CloseSessions(c)
    \/ \E c \in Conns : CloseTunnels(c)
    \/ \E c \in Conns : CloseTransport(c)

SpecTear == InitTear /\ [][NextTear]_vars

\* ------------------------------------------------------------------ the requests
\* clients connect and send global requests; the handlers run
NextReq ==
    \/ \E c \in Conns, u \in LifeUsers : HandleConnection(c, u, FALSE)
    \/ \E c \in Conns, n \in Slots : RequestArrives(c, n)
    \/ \E n \in Slots, type \in RequestTypes, data \in ForwardPayloads,
          wantReply \in BOOLEAN : handleRequest(n, type, data, wantReply)

SpecReq == Init /\ [][NextReq]_vars

\* ------------------------------------------------------------------ requests in flight
\* up to MaxRequests request handlers are in flight at once
RequestSlots == 1 .. MaxRequests
ConcUsers == { <<"a">> }

InitConc ==
    /\ connState = [ c \in Conns |-> "none" ]
    /\ user = [ c \in Conns |-> EmptyStr ]
    /\ admin = [ c \in Conns |-> FALSE ]
    /\ services = [ c \in Conns |-> EmptyMap ]
    /\ sessions = [ c \in Conns |-> << >> ]
    /\ tunnels = [ c \in Conns |-> << >> ]
    /\ used = [ c \in Conns |-> 0 ]
    /\ sessionsIndex = [ u \in { } |-> << >> ]
    /\ sessionsList = << >>
    /\ closePc = [ c \in Conns |-> "open" ]
    /\ closeRuns = [ c \in Conns |-> 0 ]
    /\ reqStream = [ c \in Conns |-> "closed" ]
    /\ chanStream = [ c \in Conns |-> "closed" ]
    /\ pending = [ n \in RequestSlots |-> NoTask ]
    /\ childClosed = { }
    /\ nextId = 1
    /\ scav = ScavIdle
    /\ now = 0
    /\ last = NoOp
    /\ lk = LkIdle
    /\ StatInit

NextConc ==
    \/ \E c \in Conns, u \in ConcUsers : HandleConnection(c, u, FALSE)
    \/ \E c \in Conns, n \in RequestSlots : RequestArrives(c, n)
    \/ \E n \in RequestSlots, type \in RequestTypes, data \in ForwardPayloads,
          wantReply \in BOOLEAN : handleRequest(n, type, data, wantReply)

SpecConc == InitConc /\ [][NextConc]_vars

\* requests are handled while streams end and Close runs
NextShut ==
    \/ \E c \in Conns, u \in ConcUsers : HandleConnection(c, u, FALSE)
    \/ \E c \in Conns, n \in Slots : RequestArrives(c, n)
    \/ \E n \in Slots, type \in RequestTypes, data \in ForwardPayloads,
          wantReply \in BOOLEAN : handleRequest(n, type, data, wantReply)
    \/ \E c \in Conns, k \in PumpKinds : StreamEnds(c, k)
    \/ \E c \in Conns : CloseSessions(c)
    \/ \E c \in Conns : CloseTunnels(c)
    \/ \E c \in Conns : CloseTransport(c)

SpecShut == Init /\ [][NextShut]_vars

\* ------------------------------------------------------------------ locking, step by step
\* the calls session.LookupService(host, port) that LookupSessionService
\* makes from partition i on, in order, were none of them to hit
RECURSIVE LookupVisits(_, _, _)
LookupVisits(parts, i, port) ==
    IF i >= Len(parts) THEN << >>
    ELSE LET host == Join(SubSeq(parts, 1, i))
             usr == Join(SubSeq(parts, i + 1, Len(parts)))
             list == MapGet(sessionsIndex, usr, << >>)
         IN [ k \in 1 .. Len(list) |->
                [ conn |-> list[k], host |-> host, port |-> port ] ]
            \o LookupVisits(parts, i + 1, port)

\* LookupSessionService: g.lock.Lock(), with the unlock deferred
LookupLocks(host, port) ==
    /\ lk.pc["lookup"] = "idle"
    /\ lk.g = "none"
    /\ lk' = [ lk EXCEPT !.g = "lookup", !.pc["lookup"] = "loop",
                         !.queue["lookup"] = LookupVisits(Split(host), 0, port) ]
    /\ UNCHANGED ModelVars

\* inside the loops: session.LookupService takes the lock of the session
LookupCallsLookupService ==
    /\ lk.pc["lookup"] = "loop"
    /\ lk.queue["lookup"] # << >>
    /\ lk.c[Head(lk.queue["lookup"]).conn] = "none"
    /\ lk' = [ lk EXCEPT !.c[Head(lk.queue["lookup"]).conn] = "lookup",
                         !.pc["lookup"] = "in" ]
    /\ UNCHANGED ModelVars

\* session.LookupService returns, its lock released: a hit ends the loops
LookupServiceReturns ==
    /\ lk.pc["lookup"] = "in"
    /\ LET v == Head(lk.queue["lookup"])
       IN lk' = IF lookupService(v.conn, v.host, v.port)
                THEN [ lk EXCEPT !.c[v.conn] = "none",
                                 !.pc["lookup"] = "return",
                                 !.queue["lookup"] = << >> ]
                ELSE [ lk EXCEPT !.c[v.conn] = "none",
                                 !.pc["lookup"] = "loop",
                                 !.queue["lookup"] = Tail(@) ]
    /\ UNCHANGED ModelVars

\* LookupSessionService returns: the deferred g.lock.Unlock()
LookupUnlocks ==
    /\ \/ lk.pc["lookup"] = "return"
       \/ lk.pc["lookup"] = "loop" /\ lk.queue["lookup"] = << >>
    /\ lk' = [ lk EXCEPT !.g = "none", !.pc["lookup"] = "idle" ]
    /\ UNCHANGED ModelVars

\* Gateway.Status: g.lock.Lock(), with the unlock deferred
StatusLocks ==
    /\ lk.pc["status"] = "idle"
    /\ lk.g = "none"
    /\ lk' = [ lk EXCEPT !.g = "status", !.pc["status"] = "loop",
                         !.queue["status"] = sessionsList ]
    /\ UNCHANGED ModelVars

\* inside the loop: session.Status() takes the lock of the session
StatusCallsStatus ==
    /\ lk.pc["status"] = "loop"
    /\ lk.queue["status"] # << >>
    /\ lk.c[Head(lk.queue["status"])] = "none"
    /\ lk' = [ lk EXCEPT !.c[Head(lk.queue["status"])] = "status",
                         !.pc["status"] = "in" ]
    /\ UNCHANGED ModelVars

\* session.Status() returns, its lock released
StatusReturns ==
    /\ lk.pc["status"] = "in"
    /\ lk' = [ lk EXCEPT !.c[Head(lk.queue["status"])] = "none",
                         !.pc["status"] = "loop",
                         !.queue["status"] = Tail(@) ]
    /\ UNCHANGED ModelVars

\* Gateway.Status returns: the deferred g.lock.Unlock()
StatusUnlocks ==
    /\ lk.pc["status"] = "loop"
    /\ lk.queue["status"] = << >>
    /\ lk' = [ lk EXCEPT !.g = "none", !.pc["status"] = "idle" ]
    /\ UNCHANGED ModelVars

\* Connection.updateUser: c.lock.Lock(), with the unlock deferred
updateUserLocks(c) ==
    /\ lk.pc["update"] = "idle"
    /\ connState[c] = "active"
    /\ lk.c[c] = "none"
    /\ lk' = [ lk EXCEPT !.c[c] = "update", !.pc["update"] = "locked",
                         !.queue["update"] = << c >> ]
    /\ UNCHANGED ModelVars

\* c.gateway.database.updateUser(...) is called: the write to the database
\* is under way
updateUserWrites ==
    /\ lk.pc["update"] = "locked"
    /\ lk' = [ lk EXCEPT !.io = @ \cup { "update" }, !.pc["update"] = "io" ]
    /\ UNCHANGED ModelVars

\* the write returns and updateUser with it: the deferred c.lock.Unlock()
updateUserReturns ==
    /\ lk.pc["update"] = "io"
    /\ lk' = [ lk EXCEPT !.io = @ \ { "update" },
                         !.c[Head(lk.queue["update"])] = "none",
                         !.pc["update"] = "idle", !.queue["update"] = << >> ]
    /\ UNCHANGED ModelVars

NextLock ==
    \/ \E host \in FullHosts, port \in StoredPorts : LookupLocks(host, port)
    \/ LookupCallsLookupService
    \/ LookupServiceReturns
    \/ LookupUnlocks
    \/ StatusLocks
    \/ StatusCallsStatus
    \/ StatusReturns
    \/ StatusUnlocks
    \/ \E c \in Conns : updateUserLocks(c)
    \/ updateUserWrites
    \/ updateUserReturns

SpecLock == InitDir /\ [][NextLock]_vars

\* ------------------------------------------------------------------ claims
Registered(c) == c \in Range(sessionsList)
Indexed(c) == \E u \in DOMAIN sessionsIndex : c \in Range(sessionsIndex[u])

\* what a call of c.Close() may change besides the Connection and the
\* Gateway: the position of the caller
ConnectionState ==
    << connState, user, admin, services, sessions, tunnels, used,
       sessionsIndex, sessionsList, closePc, closeRuns, pending, childClosed,
       nextId, now >>

C1_Absent ==
    \A c \in Conns : closePc[c] = "closed" => ~Registered(c) /\ ~Indexed(c)

C1_Once == \A c \in Conns : closeRuns[c] <= 1

C1_LaterCloseChangesNothing ==
    \A c \in Conns :
        (closePc[c] = "closed" /\ last'.op = "Close" /\ last'.conn = c)
            => UNCHANGED ConnectionState

\* C1: once the closeOnce body of a Connection has finished (Close has
\* returned), the Connection is in neither the flat list nor any per-user
\* list; a call of Close made after that, by a pump or the scavenger, changes
\* nothing of the Connection or the Gateway; and the body is entered at most
\* once per Connection.
C1_CloseIsFinalAndIdempotent ==
    /\ [](C1_Absent /\ C1_Once)
    /\ [][C1_LaterCloseChangesNothing]_vars

\* a pump or the scavenger has called Close on a Connection that was closed
C1_Witness ==
    /\ last.op = "Close"
    /\ ~last.ok
    /\ closePc[last.conn] = "closed"
    /\ closeRuns[last.conn] = 1

\* C2: a Connection is in the per-user list of its own user exactly when it
\* is in the flat list; it occurs at most once in the flat list, at most once
\* in the list of its user and in no list of another user.
C2_IndexMatchesList ==
    \A c \in Conns :
        /\ Registered(c) <=> c \in Range(MapGet(sessionsIndex, user[c], << >>))
        /\ Count(sessionsList, c) <= 1
        /\ \A u \in DOMAIN sessionsIndex :
               Count(sessionsIndex[u], c) <= (IF u = user[c] THEN 1 ELSE 0)

\* two Connections of one user were added and one of them has been deleted
C2_Witness ==
    \E c, d \in Conns :
        /\ c # d /\ user[c] = user[d]
        /\ connState[c] = "active" /\ connState[d] = "active"
        /\ Registered(c) /\ closePc[d] # "open" /\ ~Registered(d)

\* C5: a tcpip-forward that reaches registerService(host, port) on a
\* Connection that already has (host, port) makes it return
\* ErrServiceAlreadyRegistered and leaves every services map as it was.
C5_DuplicateRegisterRefused ==
    [][ ( /\ last'.op = "handleRequest"
          /\ last'.type = "tcpip-forward"
          /\ last'.data.good
          /\ last'.data.port # 0
          /\ lookupService(last'.conn, last'.data.host, Uint16(last'.data.port)) )
        => ( last'.err /\ ~last'.ok /\ services' = services ) ]_vars

\* a duplicate tcpip-forward has been refused and the first registration is
\* still there
C5_Witness ==
    /\ last.op = "handleRequest"
    /\ last.type = "tcpip-forward"
    /\ last.err
    /\ lookupService(last.conn, last.data.host, Uint16(last.data.port))

\* C6: a tcpip-forward whose decoded port is 0 is answered with ok = false
\* (the reply is sent when WantReply is set) and leaves every services map
\* as it was, whatever the host and the services registered before.
C6_PortZeroRefused ==
    [][ ( /\ last'.op = "handleRequest"
          /\ last'.type = "tcpip-forward"
          /\ last'.data.good
          /\ last'.data.port = 0 )
        => ( ~last'.ok /\ services' = services ) ]_vars

\* a port-0 tcpip-forward that wanted a reply has been answered on a
\* Connection that advertises something
C6_Witness ==
    /\ last.op = "handleRequest"
    /\ last.type = "tcpip-forward"
    /\ last.data.good
    /\ last.data.port = 0
    /\ last.flag
    /\ ~last.ok
    /\ \E h \in DOMAIN services[last.conn] : services[last.conn][h] # { }

\* ------------------------------------------------------------------
FullyClosed(c) ==
    /\ closePc[c] = "closed"
    /\ ~Registered(c)
    /\ ~Indexed(c)
    /\ Range(sessions[c]) \subseteq childClosed
    /\ { t.id : t \in Range(tunnels[c]) } \subseteq childClosed

\* C10: when a scavenge pass has gone through its copy of the list, every
\* Connection it found idle for longer than the timeout is closed: absent
\* from the flat list and the index, with Close invoked on each of its
\* Sessions and Tunnels.
C10_ScavengedAreFullyClosed ==
    (scav.pc = "loop" /\ scav.queue = << >>)
        => \A c \in scav.closed : FullyClosed(c)

\* the same, but for the Sessions and Tunnels that Close does not see
C10_ScavengedAreDeregistered ==
    (scav.pc = "loop" /\ scav.queue = << >>)
        => \A c \in scav.closed :
               closePc[c] = "closed" /\ ~Registered(c) /\ ~Indexed(c)

\* a Connection the pass does not find idle is left as it is by the visit
C10_OthersUntouched ==
    [][ ( /\ scav.pc = "loop"
          /\ scav.queue # << >>
          /\ scav'.queue = Tail(scav.queue)
          /\ scav'.pc = "loop" )
        => UNCHANGED ConnectionState ]_vars

\* ------------------------------------------------------------------
Live(c) == Registered(c) /\ closePc[c] = "open"

Advertised(c) ==
    { hp \in Hosts \X StoredPorts : lookupService(c, hp[1], hp[2]) }

Answers(d, rhost, full) ==
    \/ rhost = EmptyStr /\ user[d] = full
    \/ Glue(rhost, user[d]) = full

\* d takes the place of c: it was found under a shorter host, or it has the
\* same user and was added after c
Shadows(d, rhost, c, host) ==
    \/ Len(rhost) < Len(host)
    \/ rhost = host /\ user[d] = user[c] /\ d > c

Cuts(full) == { 0 } \cup { i \in 1 .. Len(full) : full[i] = Dot }
HostAt(full, i) == IF i = 0 THEN EmptyStr ELSE SubSeq(full, 1, i - 1)
UserAt(full, i) == SubSeq(full, i + 1, Len(full))

\* the registered Connections of the user after cut i that advertise the
\* host before it
Candidates(full, port, i) ==
    { c \in Conns : /\ Registered(c)
                    /\ user[c] = UserAt(full, i)
                    /\ lookupService(c, HostAt(full, i), port) }

Matching(full, port) == { i \in Cuts(full) : Candidates(full, port, i) # { } }

Smallest(S) == CHOOSE x \in S : \A y \in S : x <= y
Latest(S) == CHOOSE x \in S : \A y \in S : x >= y

Expected(full, port) ==
    LET m == Matching(full, port)
    IN IF m = { } THEN NilTriple
       ELSE LET i == Smallest(m)
            IN [ conn |-> Latest(Candidates(full, port, i)),
                 host |-> HostAt(full, i), port |-> port ]

TunnelRequest(l) == l.op = "handleChannel" /\ l.type = "direct-tcpip" /\ l.data.good

\* C7 as stated: a direct-tcpip channel (with well-formed extra data) opened
\* by a Connection that is not admin is rejected with reason Prohibited.
C7_NonAdminIsProhibited ==
    ( TunnelRequest(last) /\ ~admin[last.conn] )
        => ( ~last.ok /\ last.reason = "Prohibited" )

\* the part of it that the code keeps: Prohibited when the service exists
C7_NonAdminIsProhibitedForExisting ==
    ( /\ TunnelRequest(last)
      /\ ~admin[last.conn]
      /\ Matching(last.data.host, Uint16(last.data.port)) # { } )
        => ( ~last.ok /\ last.reason = "Prohibited" )

\* C8: a direct-tcpip channel of a Connection that is not admin opens no
\* channel and adds no Tunnel anywhere: every Tunnel in a tunnels list
\* serves a direct-tcpip channel of an admin Connection; a Connection that
\* is not admin advertises services and is the target of admins' tunnels.
C8_TunnelsStartAtAdmins ==
    /\ []( /\ \A c \in Conns : \A t \in Range(tunnels[c]) : admin[t.from]
           /\ ( /\ last.op = "handleChannel"
                /\ last.type = "direct-tcpip"
                /\ ~admin[last.conn] ) => ( ~last.ok /\ last.target = NoConn ) )
    /\ [][ ( /\ last'.op = "handleChannel"
             /\ last'.type = "direct-tcpip"
             /\ ~admin[last'.conn] )
           => ( tunnels' = tunnels /\ nextId' = nextId /\ childClosed' = childClosed ) ]_vars

\* a Connection that is not admin has just been refused a tunnel to an
\* existing service, while it advertises a service and carries the
\* forwarded-tcpip end of an admin's tunnel
C8_Witness ==
    /\ TunnelRequest(last)
    /\ ~admin[last.conn]
    /\ ~last.ok
    /\ Matching(last.data.host, Uint16(last.data.port)) # { }
    /\ Advertised(last.conn) # { }
    /\ \E t \in Range(tunnels[last.conn]) :
          t.type = "forwarded-tcpip" /\ admin[t.from] /\ t.from # last.conn

\* C9: a direct-tcpip channel of an admin Connection for a (host, port) that
\* no registered Connection advertises under any partition is rejected with
\* ConnectionFailed, and no Tunnel is created on any Connection.
C9_MissIsConnectionFailed ==
    [][ ( /\ TunnelRequest(last')
          /\ admin[last'.conn]
          /\ Matching(last'.data.host, Uint16(last'.data.port)) = { } )
        => ( /\ ~last'.ok
             /\ last'.reason = "ConnectionFailed"
             /\ last'.target = NoConn
             /\ tunnels' = tunnels
             /\ nextId' = nextId ) ]_vars

\* an admin has been refused, without any channel having been tried, for a
\* name that nobody advertises, while other names are advertised
C9_Witness ==
    /\ TunnelRequest(last)
    /\ admin[last.conn]
    /\ ~last.ok
    /\ last.reason = "ConnectionFailed"
    /\ ~last.err
    /\ Matching(last.data.host, Uint16(last.data.port)) = { }
    /\ \E c \in Conns : Live(c) /\ Advertised(c) # { }

\* ------------------------------------------------------------------
\* the goroutine that runs the body of Close is scheduled again and again,
\* and each Close of a child and of the transport returns
FairClose ==
    \A c \in Conns : /\ WF_vars(CloseSessions(c))
                     /\ WF_vars(CloseTunnels(c))
                     /\ WF_vars(CloseTransport(c))

\* the gateway with its clients, the scavenger left out
NextLive ==
    \/ \E c \in Conns, u \in LifeUsers : HandleConnection(c, u, TRUE)
    \/ \E c \in Conns, n \in Slots : ChannelArrives(c, n)
    \/ \E n \in Slots, extra \in BOOLEAN, acceptOk \in BOOLEAN :
          handleChannel(n, "session", Malformed, extra, TRUE, acceptOk)
    \/ \E c \in Conns, k \in PumpKinds : StreamEnds(c, k)
    \/ \E c \in Conns : CloseSessions(c)
    \/ \E c \in Conns : CloseTunnels(c)
    \/ \E c \in Conns : CloseTransport(c)

SpecLive == Init /\ [][NextLive]_vars /\ FairClose

PumpReturned(c) ==
    connState[c] = "active" /\ ( reqStream[c] = "closed" \/ chanStream[c] = "closed" )

\* C11: when the request stream or the channel stream of an active
\* Connection has closed, its pump has called Close, and under fair
\* scheduling the Connection gets closed and is out of the Gateway's list
\* and index, also when the other stream stays open.
C11_FirstPumpToReturnCloses ==
    /\ [](\A c \in Conns : PumpReturned(c) => closePc[c] # "open")
    /\ \A c \in Conns :
          PumpReturned(c) ~> ( closePc[c] = "closed" /\ ~Registered(c) /\ ~Indexed(c) )

\* a Connection is closed and out of the Gateway after its request stream
\* closed, its channel stream never having closed
C11_Witness ==
    \E c \in Conns : /\ connState[c] = "active"
                     /\ reqStream[c] = "closed"
                     /\ chanStream[c] = "open"
                     /\ closePc[c] = "closed"
                     /\ ~Registered(c)

\* ------------------------------------------------------------------
\* whether a services map holds (host, port)
Has(svc, host, port) == host \in DOMAIN svc /\ port \in svc[host]

\* the (host, port) pairs a services map holds
Entries(svc) == { hp \in (DOMAIN svc) \X StoredPorts : hp[2] \in svc[hp[1]] }

\* C12: a well-formed cancel-tcpip-forward for (host, port) is answered ok
\* whether or not (host, port) was registered; afterwards (host, port) is
\* not in the Connection's services, every other entry of it is as before
\* and no other Connection's services have changed.
C12_CancelAlwaysOk ==
    [][ ( /\ last'.op = "handleRequest"
          /\ last'.type = "cancel-tcpip-forward"
          /\ last'.data.good )
        => LET c == last'.conn
               hp == << last'.data.host, Uint16(last'.data.port) >>
           IN /\ last'.ok
              /\ ~Has(services'[c], hp[1], hp[2])
              /\ Entries(services'[c]) = Entries(services[c]) \ { hp }
              /\ \A d \in Conns \ { c } : services'[d] = services[d] ]_vars

\* a cancel that wanted a reply has been answered ok on a Connection that
\* keeps another service
C12_Witness ==
    /\ last.op = "handleRequest"
    /\ last.type = "cancel-tcpip-forward"
    /\ last.data.good
    /\ last.flag
    /\ last.ok
    /\ \E hp \in Entries(services[last.conn]) : hp[1] # last.data.host

\* C13: a tcpip-forward is answered ok exactly when its payload decodes,
\* its port is not 0 and (host, port) was not registered on the Connection
\* before; when it is answered ok, (host, port) is registered afterwards.
C13_ForwardOkIffNew ==
    [][ ( last'.op = "handleRequest" /\ last'.type = "tcpip-forward" )
        => LET c == last'.conn
               d == last'.data
           IN /\ last'.ok <=> ( /\ d.good
                                /\ d.port # 0
                                /\ ~lookupService(c, d.host, Uint16(d.port)) )
              /\ last'.ok => Has(services'[c], d.host, Uint16(d.port)) ]_vars

\* a tcpip-forward has been answered ok and its service is registered next
\* to one registered before
C13_Witness ==
    /\ last.op = "handleRequest"
    /\ last.type = "tcpip-forward"
    /\ last.ok
    /\ lookupService(last.conn, last.data.host, Uint16(last.data.port))
    /\ \E hp \in Entries(services[last.conn]) : hp[1] # last.data.host

\* ------------------------------------------------------------------
TunnelIds(c) == { t.id : t \in Range(tunnels[c]) }

\* what one step of the body of c.Close() must look like
CloseStepInOrder(c) ==
    \/ /\ closePc[c] = "open"
       /\ closePc'[c] = "deregistered"
       /\ ~Registered(c)' /\ ~Indexed(c)'
       /\ childClosed' = childClosed
    \/ /\ closePc[c] = "deregistered"
       /\ closePc'[c] = "sessions"
       /\ ~Registered(c) /\ ~Indexed(c)
       /\ childClosed' = childClosed \cup Range(sessions[c])
    \/ /\ closePc[c] = "sessions"
       /\ closePc'[c] = "tunnels"
       /\ ~Registered(c) /\ ~Indexed(c)
       /\ childClosed' = childClosed \cup TunnelIds(c)
    \/ /\ closePc[c] = "tunnels"
       /\ closePc'[c] = "closed"
       /\ childClosed' = childClosed

\* C14: the body of Close goes in a fixed order: the Connection leaves the
\* Gateway's list and index first, then Close is invoked on every Session
\* and then on every Tunnel in its lists, and only then is the transport
\* closed; the Connection is out of the Gateway whenever Close is invoked
\* on a child.
C14_CloseOrder ==
    /\ [][ \A c \in Conns : closePc'[c] # closePc[c] => CloseStepInOrder(c) ]_vars
    /\ [](\A c \in Conns : closePc[c] # "open" => ~Registered(c) /\ ~Indexed(c))

\* a Connection is closed whose Close found a Session or a served
\* direct-tcpip Tunnel in its lists and invoked Close on it
C14_Witness ==
    \E c \in Conns :
        /\ closePc[c] = "closed"
        /\ ~Registered(c)
        /\ \/ \E t \in Range(tunnels[c]) : t.type = "direct-tcpip" /\ t.id \in childClosed
           \/ \E x \in Range(sessions[c]) : x \in childClosed

\* ------------------------------------------------------------------
\* C15: once a Connection is closed (Close has returned), its services map,
\* its sessions list and its tunnels list stay as they are, also while
\* handlers spawned before Close are still in flight.
C15_ClosedIsFrozen ==
    [][ \A c \in Conns :
           closePc[c] = "closed"
               => /\ services'[c] = services[c]
                  /\ sessions'[c] = sessions[c]
                  /\ tunnels'[c] = tunnels[c] ]_vars

\* the part of it that the code keeps: the lists of Sessions and Tunnels
C15_ClosedListsAreFrozen ==
    [][ \A c \in Conns :
           closePc[c] = "closed"
               => sessions'[c] = sessions[c] /\ tunnels'[c] = tunnels[c] ]_vars

\* a request handler of Connection c is in flight in the tasks p
InFlight(p, c) == \E m \in DOMAIN p : p[m] = Task("request", c)

\* C20: when a tcpip-forward for (host, port) is handled while other request
\* handlers of the same Connection are in flight, it is answered ok exactly
\* when (host, port) was not registered, and then (host, port) is registered
\* next to everything that was; so of several for one (host, port) one is
\* answered ok, and those for different pairs all get registered.
C20_ConcurrentForwardsSerialize ==
    [][ ( /\ last'.op = "handleRequest"
          /\ last'.type = "tcpip-forward"
          /\ last'.data.good
          /\ last'.data.port # 0
          /\ InFlight(pending', last'.conn) )
        => LET c == last'.conn
               hp == << last'.data.host, Uint16(last'.data.port) >>
           IN /\ last'.ok <=> hp \notin Entries(services[c])
              /\ Entries(services'[c]) = Entries(services[c]) \cup { hp }
              /\ \A d \in Conns \ { c } : services'[d] = services[d] ]_vars

\* a tcpip-forward has been refused as a duplicate while another request
\* handler of the Connection is in flight, and a different pair registered
\* before is still there
C20_Witness ==
    /\ last.op = "handleRequest"
    /\ last.type = "tcpip-forward"
    /\ last.err
    /\ InFlight(pending, last.conn)
    /\ \E hp \in Entries(services[last.conn]) : hp[1] # last.data.host

\* ------------------------------------------------------------------
\* an admin's well-formed direct-tcpip channel whose name resolves
Resolves(l) ==
    /\ TunnelRequest(l)
    /\ admin[l.conn]
    /\ Matching(l.data.host, Uint16(l.data.port)) # { }

\* tunnel t is a channel of the given type carrying host, port and origin
Carries(t, type, host, port, origin) ==
    /\ t.type = type
    /\ t.host = host
    /\ t.port = port
    /\ t.origin = origin

\* the lists after the step hold, on top of what they held, the
\* forwarded-tcpip Tunnel on the target (with the coordinates hit and the
\* caller's origin) and, when served is true, the caller's direct-tcpip
\* Tunnel; no other list has changed
TunnelsAdded(c, data, hit, served) ==
    LET T == hit.conn
        n == Len(tunnels'[T]) - Len(tunnels[T])
        fwd == tunnels'[T][n]
    IN /\ n = ( IF served /\ T = c THEN 2 ELSE 1 )
       /\ SubSeq(tunnels'[T], n + 1, Len(tunnels'[T])) = tunnels[T]
       /\ Carries(fwd, "forwarded-tcpip", hit.host, hit.port, data.origin)
       /\ fwd.from = c
       /\ served => /\ Len(tunnels'[c]) > Len(tunnels[c])
                    /\ Carries(Head(tunnels'[c]), "direct-tcpip",
                               data.host, data.port, data.origin)
                    /\ T # c => Tail(tunnels'[c]) = tunnels[c]
       /\ \A d \in Conns \ { c, T } : tunnels'[d] = tunnels[d]
       /\ ~served /\ T # c => tunnels'[c] = tunnels[c]

\* C18 as stated: whenever an admin's direct-tcpip channel resolves, one
\* forwarded-tcpip channel is opened on the target with the coordinates of
\* the lookup and the caller's origin, and one Tunnel is added to the
\* target's list and one to the caller's.
C18_ResolvedIsAlwaysTunnelled ==
    [][ Resolves(last')
        => TunnelsAdded(last'.conn, last'.data,
                        Expected(last'.data.host, Uint16(last'.data.port)), TRUE) ]_vars

\* C18: when an admin's direct-tcpip channel resolves to target T with
\* coordinates (host, port), then: if OpenChannel on T fails the channel is
\* rejected with ConnectionFailed and no Tunnel is added; otherwise exactly
\* one forwarded-tcpip channel is opened on T, carrying (host, port) of the
\* lookup and the caller's origin, and its Tunnel is added to T's list; if
\* the caller's channel is then accepted one Tunnel is added to the
\* caller's list too, and if not, none is and T's Tunnel is closed.
C18_ResolvedIsTunnelledUnlessIOFails ==
    [][ Resolves(last')
        => LET c == last'.conn
               hit == Expected(last'.data.host, Uint16(last'.data.port))
           IN /\ last'.target = hit.conn
              /\ \/ /\ ~last'.ok /\ last'.err
                    /\ last'.reason = "ConnectionFailed"
                    /\ tunnels' = tunnels
                    /\ childClosed' = childClosed
                 \/ /\ last'.ok /\ last'.err
                    /\ TunnelsAdded(c, last'.data, hit, FALSE)
                    /\ Head(tunnels'[hit.conn]).id \in childClosed'
                 \/ /\ last'.ok /\ ~last'.err
                    /\ TunnelsAdded(c, last'.data, hit, TRUE)
                    /\ childClosed' = childClosed ]_vars

\* "b.b.a" asked by the admin with origin 5.6.7.8:9 has been served: the
\* Connection of user "b.a" carries a forwarded-tcpip Tunnel for host "b"
\* with that origin, and the admin carries the direct-tcpip Tunnel
C18_Witness ==
    /\ Resolves(last)
    /\ last.ok /\ ~last.err
    /\ last.target # last.conn
    /\ last.data.host = <<"b", ".", "b", ".", "a">>
    /\ last.data.origin = << "5.6.7.8", 9 >>
    /\ \E t \in Range(tunnels[last.target]) :
          Carries(t, "forwarded-tcpip", <<"b">>, 1, << "5.6.7.8", 9 >>)
    /\ \E t \in Range(tunnels[last.conn]) :
          Carries(t, "direct-tcpip", last.data.host, 1, << "5.6.7.8", 9 >>)

\* ------------------------------------------------------------------
\* the channel open that ran last is one the dispatcher rejects by its type
\* or its extra data alone
RejectedByDispatcher(l) ==
    /\ l.op = "handleChannel"
    /\ \/ l.type = "session" /\ l.flag
       \/ l.type \notin { "session", "direct-tcpip" }

PlainSession(l) == l.op = "handleChannel" /\ l.type = "session" /\ ~l.flag

RejectionReason(l) ==
    IF l.type = "session" THEN "Prohibited" ELSE "UnknownChannelType"

OneSessionAdded(c) ==
    /\ Len(sessions'[c]) = Len(sessions[c]) + 1
    /\ Tail(sessions'[c]) = sessions[c]
    /\ Head(sessions'[c]) \notin Range(sessions[c])
    /\ \A d \in Conns \ { c } : sessions'[d] = sessions[d]

C16_NeverBothLocks ==
    \A t \in LockTasks : ~( lk.g = t /\ \E x \in Conns : lk.c[x] = t )

\* C17: no call holds the Gateway lock or the lock of a Connection while it
\* performs I/O.
C17_NoLockAcrossIO ==
    \A t \in lk.io : lk.g # t /\ \A x \in Conns : lk.c[x] # t

\* the part of it that the code keeps: the Gateway lock is not held across
\* the I/O followed here
C17_NoGatewayLockAcrossIO == \A t \in lk.io : lk.g # t

\* ------------------------------------------------------------------ byte counters
\* the sum of the counters of the Tunnels of a list
RECURSIVE SumList(_)
SumList(list) ==
    IF Len(list) = 0 THEN ZeroBytes
    ELSE LET t == tunnelBytes[Head(list).id]
             r == SumList(Tail(list))
         IN Bytes(t.read + r.read, t.written + r.written)

\* Connection.Status: bytes_read and bytes_written as reported, the
\* cumulative counters plus the counters of every Tunnel on the list
Status(c) ==
    LET live == SumList(tunnels[c])
    IN Bytes(bytes[c].read + live.read, bytes[c].written + live.written)

\* the Tunnel with identity id on the list of c
TunnelOf(c, id) == CHOOSE t \in Range(tunnels[c]) : t.id = id

Listed(c, id) == \E t \in Range(tunnels[c]) : t.id = id

\* a deleteTunnel that forgets to keep the stats
deleteTunnelNoFlush(c, id) ==
    /\ tunnels' = [ tunnels EXCEPT ![c] = Without(@, TunnelOf(c, id)) ]
    /\ bytes' = bytes

\* Connection.deleteTunnel, under the Connection lock: the list is filtered
\* and the counters of the Tunnel are added to the cumulative counters
deleteTunnel(c, id) ==
    /\ tunnels' = [ tunnels EXCEPT ![c] = Without(@, TunnelOf(c, id)) ]
    /\ bytes' = [ bytes EXCEPT ![c] =
                    Bytes(@.read + tunnelBytes[id].read,
                          @.written + tunnelBytes[id].written) ]

\* Tunnel.Close on a Tunnel of c: it is idempotent, and the first call takes
\* the Tunnel off the list of its Connection
TunnelClose(c, id) ==
    /\ Listed(c, id)
    /\ deleteTunnel(c, id)
    /\ deleted' = [ deleted EXCEPT ![c] = @ \cup { id } ]
    /\ childClosed' = childClosed \cup { id }
    /\ last' = NoOp
    /\ UNCHANGED << lk, connState, user, admin, services, sessions, used,
                    sessionsIndex, sessionsList, closePc, closeRuns, reqStream,
                    chanStream, pending, nextId, scav, now, tunnelBytes,
                    arrived >>

\* the pump of a Tunnel that is not closed moves r bytes one way and w the
\* other, and counts them
TunnelMoves(c, id, r, w) ==
    /\ Listed(c, id)
    /\ id \notin childClosed
    /\ tunnelBytes[id].read + r <= MaxBytes
    /\ tunnelBytes[id].written + w <= MaxBytes
    /\ tunnelBytes' = [ tunnelBytes EXCEPT ![id] =
                          Bytes(@.read + r, @.written + w) ]
    /\ last' = NoOp
    /\ UNCHANGED << lk, connState, user, admin, services, sessions, tunnels,
                    used, sessionsIndex, sessionsList, closePc, closeRuns,
                    reqStream, chanStream, pending, childClosed, nextId, scav,
                    now, bytes, deleted, arrived >>

\* tunnels are opened, move bytes and are closed
NextBytes ==
    \/ \E c \in Conns, n \in Slots : ChannelArrives(c, n)
    \/ \E n \in Slots, data \in TearPayloads, openOk \in BOOLEAN,
          acceptOk \in BOOLEAN :
          handleChannel(n, "direct-tcpip", data, FALSE, openOk, acceptOk)
    \/ \E c \in Conns, id \in ChildIds : TunnelMoves(c, id, 1, 0)
    \/ \E c \in Conns, id \in ChildIds : TunnelMoves(c, id, 0, 1)
    \/ \E c \in Conns, id \in ChildIds : TunnelClose(c, id)

SpecBytes == InitTear /\ [][NextBytes]_vars

\* the sum of the counters of the Tunnels with identities in S
RECURSIVE SumIds(_)
SumIds(S) ==
    IF S = { } THEN ZeroBytes
    ELSE LET id == CHOOSE x \in S : TRUE
             r == SumIds(S \ { id })
         IN Bytes(tunnelBytes[id].read + r.read,
                  tunnelBytes[id].written + r.written)

\* every Tunnel c has had: those on its list and those deleted from it
EverTunnels(c) == TunnelIds(c) \cup deleted[c]

NextRace ==
    \/ StatusLocks
    \/ StatusCallsStatus
    \/ StatusReturns
    \/ StatusUnlocks
    \/ \E c \in Conns, n \in Slots : RequestArrives(c, n)
    \/ \E c \in Conns, n \in Slots : ChannelArrives(c, n)
    \/ \E n \in Slots, type \in RequestTypes, data \in ForwardPayloads,
          wantReply \in BOOLEAN :
          /\ pending[n].kind = "request"
          /\ lk.c[pending[n].conn] = "none"
          /\ handleRequest(n, type, data, wantReply)
    \/ \E n \in Slots, extra \in BOOLEAN, acceptOk \in BOOLEAN :
          /\ pending[n].kind = "channel"
          /\ lk.c[pending[n].conn] = "none"
          /\ handleChannel(n, "session", Malformed, extra, TRUE, acceptOk)

SpecRace == InitTear /\ [][NextRace]_vars

\* pump k of c has received and has written c.used
PumpWritesUsed(c, k) ==
    \E n \in Slots : IF k = "req" THEN RequestArrives(c, n)
                                  ELSE ChannelArrives(c, n)

\* C22: the sessions list, the tunnels list, the services map, the usage
\* counters with the last-used timestamp and the status blob of a
\* Connection are read and written only by a task that holds the lock of
\* the Connection: a pump that writes c.used holds c.lock.
C22_AccessesHoldTheLock ==
    [][ \A c \in Conns, k \in PumpKinds :
           PumpWritesUsed(c, k) => lk.c[c] = k ]_vars

\* what follows from it: no pump writes c.used while another task is inside
\* a critical section of c.lock (Status, which reads c.used there)
C22_NoWriteBesideTheHolder ==
    [][ \A c \in Conns, k \in PumpKinds :
           PumpWritesUsed(c, k) => lk.c[c] \in { k, "none" } ]_vars

\* ------------------------------------------------------------------ ports on the wire
\* ports of 32 bits as a client may send them: 0, 1 and the same above 2^16
WidePorts == { 0, 1, 65536, 65537 }

WideUsers == { <<"a">> }
WideHosts == { <<"b">> }
WideForwardPayloads ==
    { Malformed } \cup { Payload(h, p) : h \in WideHosts, p \in WidePorts }
WideTunnelPayloads ==
    { Malformed } \cup { Payload(Glue(h, u), p) :
                            h \in WideHosts, u \in WideUsers, p \in WidePorts }

\* clients connect, advertise and ask for services with ports of 32 bits
NextWide ==
    \/ \E c \in Conns, u \in WideUsers : HandleConnection(c, u, TRUE)
    \/ \E c \in Conns, n \in Slots : RequestArrives(c, n)
    \/ \E n \in Slots, type \in RequestTypes, data \in WideForwardPayloads,
          wantReply \in BOOLEAN : handleRequest(n, type, data, wantReply)
    \/ \E c \in Conns, n \in Slots : ChannelArrives(c, n)
    \/ \E n \in Slots, data \in WideTunnelPayloads, openOk \in BOOLEAN,
          acceptOk \in BOOLEAN :
          handleChannel(n, "direct-tcpip", data, FALSE, openOk, acceptOk)

SpecWide == Init /\ [][NextWide]_vars

\* C23: the port stored for an accepted tcpip-forward is the 32-bit port of
\* the request, and a direct-tcpip channel resolves to a service registered
\* under the 32-bit port it asked for; so no service is ever registered with
\* port 0, for every port a client may send, those of 65536 and above
\* included.
C23_PortsAreKept ==
    /\ \A c \in Conns : \A h \in DOMAIN services[c] : 0 \notin services[c][h]
    /\ ( last.op = "handleRequest" /\ last.type = "tcpip-forward" /\ last.ok )
          => Has(services[last.conn], last.data.host, last.data.port)
    /\ ( TunnelRequest(last) /\ last.ok )
          => \E h \in DOMAIN services[last.target] :
                Has(services[last.target], h, last.data.port)

\* the part of it that the code keeps: what is stored and looked up is the
\* port of the request narrowed to 16 bits, and a port of 0 on the wire is
\* refused
C23_PortsAreKeptModulo ==
    /\ ( last.op = "handleRequest" /\ last.type = "tcpip-forward" /\ last.ok )
          => /\ last.data.port # 0
             /\ Has(services[last.conn], last.data.host, Uint16(last.data.port))
    /\ ( TunnelRequest(last) /\ last.ok )
          => \E h \in DOMAIN services[last.target] :
                Has(services[last.target], h, Uint16(last.data.port))

\* ------------------------------------------------------------------ one lock after another
\* the calls that take their locks one at a time: Close, registerService
\* (deregisterService locks the same way) and ScavengeSessions
SerialTasks == { "close", "register", "scavenge" }

GatewayLock == [ of |-> "gateway", conn |-> NoConn ]
ConnectionLock(c) == [ of |-> "connection", conn |-> c ]

\* task t holds lock l
Holds(t, l) ==
    IF l.of = "gateway" THEN lk.g = t ELSE lk.c[l.conn] = t

\* lk with lock l given to t (or to nobody)
Given(l, t) ==
    IF l.of = "gateway" THEN [ lk EXCEPT !.g = t ]
    ELSE [ lk EXCEPT !.c[l.conn] = t ]

\* the locks Close takes: deleteConnection, c.Sessions(), c.Tunnels()
CloseLocks(c) ==
    << GatewayLock, ConnectionLock(c), ConnectionLock(c) >>

\* the locks ScavengeSessions takes over the rest of its copy of the list:
\* session.Used() and, for a session it finds idle, session.Close()
RECURSIVE ScavengeLocks(_)
ScavengeLocks(list) ==
    IF Len(list) = 0 THEN << >>
    ELSE << ConnectionLock(Head(list)) >> \o CloseLocks(Head(list))
            \o ScavengeLocks(Tail(list))

\* a call of t starts: it will ask for the locks of program, in order
Called(t, program) ==
    /\ lk.pc[t] = "idle"
    /\ lk' = [ lk EXCEPT !.pc[t] = "want", !.queue[t] = program ]
    /\ UNCHANGED ModelVars

CloseCalled(c) == connState[c] = "active" /\ Called("close", CloseLocks(c))

registerServiceCalled(c) ==
    connState[c] = "active" /\ Called("register", << ConnectionLock(c) >>)

\* g.Sessions() first, then the loop over the copy
ScavengeCalled ==
    Called("scavenge", << GatewayLock >> \o ScavengeLocks(sessionsList))

\* Lock() returns to t: the lock was free
CallLocks(t) ==
    /\ lk.pc[t] = "want"
    /\ Holds("none", Head(lk.queue[t]))
    /\ lk' = [ Given(Head(lk.queue[t]), t) EXCEPT !.pc[t] = "in" ]
    /\ UNCHANGED ModelVars

\* a task that keeps every lock it took until its call ends
CallUnlocksLate(t) ==
    /\ lk.pc[t] = "in"
    /\ lk' = IF Len(lk.queue[t]) > 1
             THEN [ lk EXCEPT !.pc[t] = "want", !.queue[t] = Tail(@) ]
             ELSE [ lk EXCEPT !.pc[t] = "idle", !.queue[t] = << >>,
                      !.g = IF @ = t THEN "none" ELSE @,
                      !.c = [ x \in Conns |-> IF @[x] = t THEN "none" ELSE @[x] ] ]
    /\ UNCHANGED ModelVars

\* the deferred Unlock() of the method t is in: t goes on to its next lock
CallUnlocks(t) ==
    /\ lk.pc[t] = "in"
    /\ lk' = [ Given(Head(lk.queue[t]), "none") EXCEPT
                 !.pc[t] = IF Len(lk.queue[t]) > 1 THEN "want" ELSE "idle",
                 !.queue[t] = Tail(@) ]
    /\ UNCHANGED ModelVars

\* lookups, Status, the scavenger, registrations and Close, all at once
NextMutex ==
    \/ \E host \in TearHosts, port \in StoredPorts : LookupLocks(host, port)
    \/ LookupCallsLookupService
    \/ LookupServiceReturns
    \/ LookupUnlocks
    \/ StatusLocks
    \/ StatusCallsStatus
    \/ StatusReturns
    \/ StatusUnlocks
    \/ \E c \in Conns : CloseCalled(c)
    \/ \E c \in Conns : registerServiceCalled(c)
    \/ ScavengeCalled
    \/ \E t \in SerialTasks : CallLocks(t)
    \/ \E t \in SerialTasks : CallUnlocks(t)

\* a mutex that is released again and again is handed to each waiter in the
\* end (sync.Mutex does not starve a waiter), and a call that holds a lock
\* goes on to release it
FairLocks ==
    /\ \A t \in SerialTasks : SF_vars(CallLocks(t)) /\ WF_vars(CallUnlocks(t))
    /\ SF_vars(LookupCallsLookupService)
    /\ SF_vars(StatusCallsStatus)
    /\ WF_vars(LookupServiceReturns)
    /\ WF_vars(LookupUnlocks)
    /\ WF_vars(StatusReturns)
    /\ WF_vars(StatusUnlocks)

SpecMutex == InitTear /\ [][NextMutex]_vars /\ FairLocks

AllLocks == { GatewayLock } \cup { ConnectionLock(c) : c \in Conns }

\* task t has asked for lock l and does not have it yet
Waits(t, l) ==
    \/ /\ t \in SerialTasks
       /\ lk.pc[t] = "want"
       /\ l = Head(lk.queue[t])
    \/ /\ t = "lookup"
       /\ lk.pc[t] = "loop" /\ lk.queue[t] # << >>
       /\ l = ConnectionLock(Head(lk.queue[t]).conn)
    \/ /\ t = "status"
       /\ lk.pc[t] = "loop" /\ lk.queue[t] # << >>
       /\ l = ConnectionLock(Head(lk.queue[t]))

Waiting(t) == \E l \in AllLocks : Waits(t, l)

\* C24: no task asks for the Gateway lock or for the lock of another
\* Connection while it holds the lock of a Connection, and under every
\* interleaving of lookups, Status, the scavenger, registrations and Close
\* every lock a task asks for is given to it in the end.
C24_LocksAreOrderedAndGranted ==
    /\ [](\A t \in LockTasks : Waiting(t)
             => \A c \in Conns : ~Holds(t, ConnectionLock(c)))
    /\ \A t \in LockTasks : Waiting(t) ~> ~Waiting(t)

\* a lookup holds the Gateway lock and waits for the lock of a Connection
\* that a registration holds, while Close waits for the Gateway lock
C24_Witness ==
    /\ lk.g = "lookup"
    /\ \E c \in Conns : /\ Waits("lookup", ConnectionLock(c))
                        /\ Holds("register", ConnectionLock(c))
    /\ Waits("close", GatewayLock)

\* ------------------------------------------------------------------
\* C25: a Connection that is in the flat list or in a per-user list was
\* built by HandleConnection and the body of its Close has not begun; the
\* step that begins the body finds the Connection in the list and leaves it
\* in neither the list nor the index, so a Connection whose Close has begun
\* is never registered.
C25_RegisteredAreNotClosing ==
    /\ [](\A c \in Conns :
             (Registered(c) \/ Indexed(c))
                 => connState[c] = "active" /\ closePc[c] = "open")
    /\ [][ \A c \in Conns :
             (closePc[c] = "open" /\ closePc'[c] # "open")
                 => /\ Registered(c)
                    /\ ~Registered(c)'
                    /\ ~Indexed(c)' ]_vars

\* the Close of a registered Connection has just removed it while another
\* Connection stays registered
C25_Witness ==
    /\ last.op = "Close"
    /\ last.ok
    /\ closePc[last.conn] = "deregistered"
    /\ ~Registered(last.conn)
    /\ \E d \in Conns : Registered(d) /\ closePc[d] = "open"

\* ------------------------------------------------------------------
\* C26: once the body of a Connection's Close has ended and no channel
\* handler that was spawned is still to run, Close has been invoked on every
\* Session and every Tunnel on the lists of that Connection, those added
\* after Close copied the lists included.
C26_LateChildrenAreClosed ==
    \A c \in Conns :
        ( /\ closePc[c] = "closed"
          /\ \A n \in Slots : pending[n].kind # "channel" )
            => /\ Range(sessions[c]) \subseteq childClosed
               /\ TunnelIds(c) \subseteq childClosed

\* ------------------------------------------------------------------ order of global requests
\* handleRequests receives a request of the given type and payload, the
\* next on the stream of c, and spawns its goroutine; arrival i runs in task i
RequestReceived(c, type, data) ==
    /\ reqStream[c] = "open"
    /\ TransportOpen(c)
    /\ Len(arrived) < MaxRequests
    /\ used' = [ used EXCEPT ![c] = now ]
    /\ pending' = [ pending EXCEPT ![Len(arrived) + 1] = Task("request", c) ]
    /\ arrived' = Append(arrived, [ conn |-> c, type |-> type, data |-> data ])
    /\ last' = NoOp
    /\ UNCHANGED << lk, bytes, tunnelBytes, deleted, connState, user, admin,
                    services, sessions, tunnels, sessionsIndex, sessionsList,
                    closePc, closeRuns, reqStream, chanStream, childClosed,
                    nextId, scav, now >>

\* requests arrive in some order and their goroutines run in any order
NextOrder ==
    \/ \E c \in Conns, u \in ConcUsers : HandleConnection(c, u, FALSE)
    \/ \E c \in Conns, type \in RequestTypes, data \in ForwardPayloads :
          RequestReceived(c, type, data)
    \/ \E n \in RequestSlots, wantReply \in BOOLEAN :
          /\ n <= Len(arrived)
          /\ handleRequest(n, arrived[n].type, arrived[n].data, wantReply)

SpecOrder == InitConc /\ [][NextOrder]_vars

\* arrival i is a tcpip-forward that reaches registerService and arrival j,
\* later on the same stream, is the cancel-tcpip-forward of the same host
\* and port; no other request for that host and port has arrived on it
ForwardThenCancel(i, j) ==
    /\ i < j /\ j <= Len(arrived)
    /\ arrived[i].type = "tcpip-forward"
    /\ arrived[j].type = "cancel-tcpip-forward"
    /\ arrived[i].conn = arrived[j].conn
    /\ arrived[i].data.good /\ arrived[i].data.port # 0
    /\ arrived[j].data = arrived[i].data
    /\ \A k \in 1 .. Len(arrived) :
           ( /\ k \notin { i, j }
             /\ arrived[k].conn = arrived[i].conn
             /\ arrived[k].data.good )
               => \/ arrived[k].data.host # arrived[i].data.host
                  \/ Uint16(arrived[k].data.port) # Uint16(arrived[i].data.port)

\* the goroutine of arrival n has run
Handled(n) == n <= Len(arrived) /\ pending[n] = NoTask

\* the goroutine of arrival n runs in this step
Handling(n) == n <= Len(arrived) /\ pending[n] # NoTask /\ pending'[n] = NoTask

\* the (host, port) of arrival n is registered on its Connection
StillRegistered(n) ==
    LET a == arrived[n]
    IN Has(services[a.conn], a.data.host, Uint16(a.data.port))

\* C27 as stated: when a tcpip-forward and then a cancel-tcpip-forward for
\* the same (host, port) have arrived on one Connection and both have been
\* handled, (host, port) is not registered on it.
C27_ArrivalOrderDecides ==
    \A i, j \in RequestSlots :
        ( ForwardThenCancel(i, j) /\ Handled(i) /\ Handled(j) )
            => ~StillRegistered(i)

\* C27, amended: the two requests take effect in the order in which their
\* goroutines run. When the cancel runs after the forward has been handled,
\* (host, port) is not registered afterwards; when the forward runs after
\* the cancel has been handled, (host, port) is registered afterwards.
C27_HandlingOrderDecides ==
    [][ \A i, j \in RequestSlots :
          ForwardThenCancel(i, j)
              => /\ ( Handled(i) /\ Handling(j) ) => ~StillRegistered(i)'
                 /\ ( Handled(j) /\ Handling(i) ) => StillRegistered(i)' ]_vars

\* the forward arrived first, its goroutine ran last and was answered ok:
\* both are handled and the service is registered
C27_Witness ==
    \E i, j \in RequestSlots :
        /\ ForwardThenCancel(i, j)
        /\ Handled(i) /\ Handled(j)
        /\ last.op = "handleRequest" /\ last.type = "tcpip-forward" /\ last.ok
        /\ StillRegistered(i)

\* the two were handled in the order of arrival and the service is gone
C27_InOrder ==
    \E i, j \in RequestSlots :
        /\ ForwardThenCancel(i, j)
        /\ Handled(i) /\ Handled(j)
        /\ last.op = "handleRequest" /\ last.type = "cancel-tcpip-forward"
        /\ ~StillRegistered(i)

\* ------------------------------------------------------------------
\* the Tunnels that the step puts on the list of d
NewTunnels(d) ==
    { t \in Range(tunnels'[d]) : t \notin Range(tunnels[d]) }

\* the Tunnels that the step puts on some list and leaves open
NewOpenTunnels ==
    { t \in UNION { NewTunnels(d) : d \in Conns } : t.id \notin childClosed' }

\* C28: for an admin's direct-tcpip channel that resolves: when the open of
\* the forwarded-tcpip channel fails, the result is ConnectionFailed and no
\* Tunnel is put on any list; when the open succeeds and the caller's
\* channel cannot be accepted, the one Tunnel the step puts on a list is the
\* forwarded-tcpip Tunnel of the target and Close has been invoked on it
\* when the handler returns; and the Tunnels a handler leaves open are
\* either none or the pair, forwarded-tcpip on the target and direct-tcpip
\* on the caller.
C28_FailedRendezvousLeavesNoHalf ==
    [][ Resolves(last')
        => LET c == last'.conn
               T == last'.target
               new == UNION { NewTunnels(d) : d \in Conns }
           IN /\ ( ~last'.ok /\ last'.err )
                    => /\ last'.reason = "ConnectionFailed"
                       /\ tunnels' = tunnels
                       /\ childClosed' = childClosed
              /\ ( last'.ok /\ last'.err )
                    => /\ new = NewTunnels(T)
                       /\ Cardinality(new) = 1
                       /\ \A t \in new : /\ t.type = "forwarded-tcpip"
                                         /\ t.id \in childClosed'
                       /\ \A t \in Range(tunnels'[c]) :
                              t.type = "direct-tcpip" => t \in Range(tunnels[c])
              /\ \/ NewOpenTunnels = { }
                 \/ /\ Cardinality(NewOpenTunnels) = 2
                    /\ \E t \in NewOpenTunnels \cap NewTunnels(T) :
                           t.type = "forwarded-tcpip"
                    /\ \E t \in NewOpenTunnels \cap NewTunnels(c) :
                           t.type = "direct-tcpip" ]_vars

\* the handler of a Connection whose transport is closed has run: the
\* channel was opened on the target, the Accept failed, and the Tunnel on
\* the target is closed while the caller has none
C28_Witness ==
    /\ Resolves(last)
    /\ last.ok /\ last.err
    /\ last.target # last.conn
    /\ closePc[last.conn] = "closed"
    /\ tunnels[last.conn] = << >>
    /\ tunnels[last.target] # << >>
    /\ Head(tunnels[last.target]).type = "forwarded-tcpip"
    /\ Head(tunnels[last.target]).id \in childClosed

\* the open on the target failed: ConnectionFailed and no Tunnel anywhere
C28_OpenFailed ==
    /\ Resolves(last)
    /\ ~last.ok /\ last.err
    /\ last.reason = "ConnectionFailed"
    /\ \A d \in Conns : tunnels[d] = << >>

====
